---- MODULE Spec2Model ----
(***************************************************************************)
(* Model of api/index.py of annota-bed: the BED interval parser            *)
(* (parse_bed) and the annotation run of _annotate_with_pysam (candidate   *)
(* builder, overlap arithmetic, scoring, ambiguity resolution, summary).   *)
(*                                                                         *)
(* Representation.                                                         *)
(*  - A Python str is a sequence of one-character strings; None is the     *)
(*    distinguished value None below, which is no character sequence.      *)
(*  - A percentage 100*cov/total is held as the exact fraction             *)
(*    <<cov, total>>; a float score is held in fixed point as              *)
(*    [milli, nano] = milli/10^3 + nano/10^9 with 0 <= nano < 10^6, each   *)
(*    quotient truncated at 10^-9.  round(x, 3) yields an integer number   *)
(*    of thousandths (ties to even).                                       *)
(*  - The attribute column of a catalog line is held as the dict that      *)
(*    attr_dict returns for it (a record whose fields are the keys).       *)
(*  - tbx.fetch(name, s, e) is the tabix region query: it raises           *)
(*    ValueError when the contig name is not in the index and otherwise    *)
(*    yields, in file order, the lines of that contig whose span           *)
(*    [fstart-1, fend) overlaps [s, e).                                    *)
(*  - Catalog lines are nine-column GTF records with integer coordinates,  *)
(*    so the `len(parts) < 9` skip and int() of a coordinate never fail.   *)
(***************************************************************************)
EXTENDS Integers, Sequences, FiniteSets

VARIABLES bed, intervals, catalog, mode, pc, idx, alt, queried,
          transcripts, exons_by_tx, cds_by_tx, found,
          rows, biotype_counter, gene_set, summary

vars == <<bed, intervals, catalog, mode, pc, idx, alt, queried,
          transcripts, exons_by_tx, cds_by_tx, found,
          rows, biotype_counter, gene_set, summary>>

(***************************************************************************)
(* Bounds                                                                  *)
(***************************************************************************)
\* longest BED upload (number of lines)
MaxBedLines == 2

\* most catalog lines on one contig
MaxLines == 3

(***************************************************************************)
(* Strings                                                                 *)
(***************************************************************************)
None == <<"None">>

\* Python truthiness of an Optional[str]
Truthy(x) == x # None /\ x # <<>>

startswith(s, p) == Len(s) >= Len(p) /\ SubSeq(s, 1, Len(p)) = p

endswith(s, p) ==
    Len(s) >= Len(p) /\ SubSeq(s, Len(s) - Len(p) + 1, Len(s)) = p

Whitespace == {" ", "\t"}

RECURSIVE SplitFrom(_, _, _, _)
SplitFrom(s, i, cur, acc) ==
    IF i > Len(s)
    THEN IF cur = <<>> THEN acc ELSE Append(acc, cur)
    ELSE IF s[i] \in Whitespace
         THEN SplitFrom(s, i + 1, <<>>,
                        IF cur = <<>> THEN acc ELSE Append(acc, cur))
         ELSE SplitFrom(s, i + 1, Append(cur, s[i]), acc)

\* str.split() with no argument: the maximal runs of non-whitespace
split(s) == SplitFrom(s, 1, <<>>, <<>>)

Digits == <<"0", "1", "2", "3", "4", "5", "6", "7", "8", "9">>

IsDigit(c) == \E d \in 1..10 : Digits[d] = c

DigitVal(c) == (CHOOSE d \in 1..10 : Digits[d] = c) - 1

RECURSIVE DigitsVal(_, _)
DigitsVal(s, accv) ==
    IF s = <<>> THEN accv ELSE DigitsVal(Tail(s), 10 * accv + DigitVal(Head(s)))

\* int(tok): [ok |-> FALSE] stands for ValueError
int(tok) ==
    LET signed == tok # <<>> /\ Head(tok) \in {"-", "+"}
        body   == IF signed THEN Tail(tok) ELSE tok
    IN  IF body # <<>> /\ \A i \in 1..Len(body) : IsDigit(body[i])
        THEN [ok  |-> TRUE,
              val |-> IF signed /\ Head(tok) = "-"
                      THEN 0 - DigitsVal(body, 0) ELSE DigitsVal(body, 0)]
        ELSE [ok |-> FALSE, val |-> 0]

CHR     == <<"c", "h", "r">>
TRACK   == <<"t", "r", "a", "c", "k">>
BROWSER == <<"b", "r", "o", "w", "s", "e", "r">>
HASH    == <<"#">>

(***************************************************************************)
(* parse_bed                                                               *)
(***************************************************************************)
\* the leading "chr" of a chromosome name is dropped
StripChr(chrom) ==
    IF startswith(chrom, CHR) THEN SubSeq(chrom, 4, Len(chrom)) ELSE chrom

BedLineIntervals_EndGeqStart(line) ==
    IF line = <<>> \/ startswith(line, TRACK) \/ startswith(line, BROWSER)
                   \/ startswith(line, HASH)
    THEN <<>>
    ELSE LET parts == split(line) IN
         IF Len(parts) < 3 THEN <<>>
         ELSE LET start == int(parts[2])
                  end   == int(parts[3])
              IN  IF ~start.ok \/ ~end.ok THEN <<>>
                  ELSE IF end.val >= start.val
                       THEN << <<StripChr(parts[1]), start.val, end.val>> >>
                       ELSE <<>>

\* one iteration of the loop of parse_bed: what the line appends to out
BedLineIntervals(line) ==
    IF line = <<>> \/ startswith(line, TRACK) \/ startswith(line, BROWSER)
                   \/ startswith(line, HASH)
    THEN <<>>
    ELSE LET parts == split(line) IN
         IF Len(parts) < 3 THEN <<>>
         ELSE LET start == int(parts[2])
                  end   == int(parts[3])
              IN  IF ~start.ok \/ ~end.ok THEN <<>>
                  ELSE IF end.val > start.val
                       THEN << <<StripChr(parts[1]), start.val, end.val>> >>
                       ELSE <<>>

RECURSIVE parse_bed(_)
parse_bed(lines) ==
    IF lines = <<>> THEN <<>>
    ELSE BedLineIntervals(Head(lines)) \o parse_bed(Tail(lines))

(***************************************************************************)
(* Arithmetic                                                              *)
(***************************************************************************)
Max(a, b) == IF a >= b THEN a ELSE b

Min(a, b) == IF a <= b THEN a ELSE b

Abs(a) == IF a >= 0 THEN a ELSE 0 - a

overlap_len_Hull(a1, a2, b1, b2) == Max(0, Max(a2, b2) - Min(a1, b1))

overlap_len(a1, a2, b1, b2) == Max(0, Min(a2, b2) - Max(a1, b1))

Million == 1000000

FxZero == [milli |-> 0, nano |-> 0]

\* the float n (an integer value)
FxInt(n) == [milli |-> 1000 * n, nano |-> 0]

FxAdd(a, b) ==
    [milli |-> a.milli + b.milli + ((a.nano + b.nano) \div Million),
     nano  |-> (a.nano + b.nano) % Million]

\* the float num/den, in thousandths when num is in thousandths (den > 0)
FxQuot(num, den) ==
    [milli |-> num \div den, nano |-> ((num % den) * Million) \div den]

\* a - b in units of 10^-9, saturated beyond +-2*10^6 (two thousandths)
FxDiffNano(a, b) ==
    IF a.milli - b.milli >= 2 THEN 2 * Million
    ELSE IF b.milli - a.milli >= 2 THEN 0 - 2 * Million
    ELSE (a.milli - b.milli) * Million + a.nano - b.nano

\* round(x, 3) of a float, as a number of thousandths
round3(x) ==
    IF 2 * x.nano > Million THEN x.milli + 1
    ELSE IF 2 * x.nano < Million THEN x.milli
    ELSE IF x.milli % 2 = 0 THEN x.milli ELSE x.milli + 1

\* `100*cov/total if total>0 else 0`: the exact fraction <<n, d>> = 100*n/d
pct(cov, total) == IF total > 0 THEN <<cov, total>> ELSE <<0, 1>>

\* w * p for a percentage p and a weight of wmilli thousandths
PctTimes(wmilli, p) == FxQuot(wmilli * 100 * p[1], p[2])

\* round(p, 3) of a percentage, as a number of thousandths of a percent
round3pct(p) == round3(FxQuot(100000 * p[1], p[2]))

\* 5*log10(1+n) for n = 1..99, in units of 10^-8
Log10Table ==
    <<150514997, 238560627, 301029995, 349485002, 389075625, 422549020,
      451544993, 477121254, 500000000, 520696342, 539590623, 556971676,
      573064017, 588045629, 602059991, 615224460, 627636252, 639376800,
      650514997, 661109647, 671211340, 680863918, 690105620, 698970004,
      707486673, 715681882, 723579015, 731198998, 738560627, 745680846,
      752574989, 759256969, 765739458, 772034022, 778151250, 784100862,
      789891798, 795532303, 801029995, 806391928, 811624645, 816734227,
      821726338, 826606256, 831378915, 836048928, 840620618, 845098040,
      849485002, 853785088, 858001671, 862137934, 866196879, 870181344,
      874094013, 877937427, 881713996, 885426005, 889075625, 892664917,
      896195844, 899670274, 903089986, 906456678, 909771967, 913037401,
      916254456, 919424545, 922549020, 925629174, 928666248, 931661430,
      934615859, 937530631, 940406796, 943245362, 946047301, 948813545,
      951544993, 954242509, 956906926, 959539046, 962139643, 964709462,
      967249225, 969759626, 972241336, 974695003, 977121254, 979520696,
      981893913, 984241474, 986563926, 988861802, 991135616, 993385867,
      995613037, 997817597, 1000000000>>

\* min(10.0, math.log1p(tx_len)/math.log(10)*5.0) for tx_len >= 1
LenBonus(tx_len) ==
    IF tx_len >= 99 THEN FxInt(10)
    ELSE [milli |-> Log10Table[tx_len] \div 100000,
          nano  |-> (Log10Table[tx_len] % 100000) * 10]

(***************************************************************************)
(* Scoring                                                                 *)
(***************************************************************************)
PROTEIN_CODING ==
    <<"p", "r", "o", "t", "e", "i", "n", "_", "c", "o", "d", "i", "n", "g">>
RNA          == <<"R", "N", "A">>
DECAY        == <<"_", "d", "e", "c", "a", "y">>
SENSE        == <<"s", "e", "n", "s", "e", "_">>
ANTISENSE    == <<"a", "n", "t", "i", "s", "e", "n", "s", "e">>
TRANSLATED   == <<"t", "r", "a", "n", "s", "l", "a", "t", "e", "d", "_">>
TRANSCRIBED  ==
    <<"t", "r", "a", "n", "s", "c", "r", "i", "b", "e", "d", "_">>

biotype_rank(bt) ==
    IF ~Truthy(bt) THEN 5
    ELSE IF bt = PROTEIN_CODING THEN 0
    ELSE IF endswith(bt, RNA) THEN 2
    ELSE IF endswith(bt, DECAY) THEN 3
    ELSE IF startswith(bt, SENSE) THEN 4
    ELSE IF bt = ANTISENSE THEN 6
    ELSE IF startswith(bt, TRANSLATED) THEN 7
    ELSE IF startswith(bt, TRANSCRIBED) THEN 8
    ELSE 5

score_transcript(tx_pct, cds_pct, exon_pct, bt, has_hugo, tx_len) ==
    LET s1 == FxAdd(FxAdd(PctTimes(3000, tx_pct), PctTimes(2000, cds_pct)),
                    PctTimes(1500, exon_pct))
        s2 == FxAdd(s1, FxInt(Max(0, 50 - 10 * biotype_rank(bt))))
        s3 == IF has_hugo THEN FxAdd(s2, FxInt(5)) ELSE s2
    IN  IF tx_len # 0 THEN FxAdd(s3, LenBonus(tx_len)) ELSE s3

(***************************************************************************)
(* Candidate builder                                                       *)
(***************************************************************************)
\* dict.get(key): None when the key is missing
Get(a, k) == IF k \in DOMAIN a THEN a[k] ELSE None

\* Python `x or y`
Or(x, y) == IF Truthy(x) THEN x ELSE y

\* the name variants tried for one interval, in order
ChromVariants_ChrFirst(chrom) == <<CHR \o chrom, chrom>>

ChromVariants(chrom) == <<chrom, CHR \o chrom>>

FetchRaises(chrom_alt) == chrom_alt \notin DOMAIN catalog

Overlaps(line, start0, end0) ==
    line.fstart - 1 < end0 /\ start0 < line.fend

fetch(chrom_alt, start0, end0) ==
    SelectSeq(catalog[chrom_alt], LAMBDA l : Overlaps(l, start0, end0))

\* defaultdict(list)[k].append(v)
AppendTo(d, k, v) ==
    [x \in DOMAIN d \cup {k} |->
        IF x = k THEN (IF k \in DOMAIN d THEN Append(d[k], v) ELSE <<v>>)
        ELSE d[x]]

\* transcripts[tx_id] = info on a dict that keeps insertion order
Upsert(ts, info) ==
    IF \E i \in 1..Len(ts) : ts[i].tx_id = info.tx_id
    THEN [i \in 1..Len(ts) |->
            IF ts[i].tx_id = info.tx_id THEN info ELSE ts[i]]
    ELSE Append(ts, info)

\* the body of `for line in it` for one line; st holds the four locals
ProcessLine(st, line, start0, end0) ==
    IF overlap_len(start0, end0, line.fstart - 1, line.fend) <= 0 THEN st
    ELSE LET a         == line.attrs
             tx_id     == Get(a, "transcript_id")
             gene_id   == Get(a, "gene_id")
             gene_name == Get(a, "gene_name")
             biotype   == Or(Get(a, "transcript_biotype"),
                             Get(a, "gene_biotype"))
         IN  IF line.ftype = "transcript" /\ Truthy(tx_id)
             THEN [st EXCEPT
                     !.found = TRUE,
                     !.transcripts = Upsert(@,
                        [tx_id |-> tx_id, gene_id |-> gene_id,
                         gene_name |-> gene_name, biotype |-> biotype,
                         strand |-> line.strand,
                         tstart |-> line.fstart, tend |-> line.fend])]
             ELSE IF line.ftype = "exon" /\ Truthy(tx_id)
             THEN [st EXCEPT !.exons_by_tx =
                        AppendTo(@, tx_id, <<line.fstart, line.fend>>)]
             ELSE IF line.ftype = "CDS" /\ Truthy(tx_id)
             THEN [st EXCEPT !.cds_by_tx =
                        AppendTo(@, tx_id, <<line.fstart, line.fend>>)]
             ELSE st

RECURSIVE ProcessLines(_, _, _, _)
ProcessLines(st, lines, start0, end0) ==
    IF lines = <<>> THEN st
    ELSE ProcessLines(ProcessLine(st, Head(lines), start0, end0),
                      Tail(lines), start0, end0)

(***************************************************************************)
(* Coverage, candidates, ranking                                           *)
(***************************************************************************)
RECURSIVE SumCov(_, _, _)
SumCov(parts, start0, end0) ==
    IF parts = <<>> THEN 0
    ELSE overlap_len(start0, end0, Head(parts)[1] - 1, Head(parts)[2])
         + SumCov(Tail(parts), start0, end0)

RECURSIVE SumLen(_)
SumLen(parts) ==
    IF parts = <<>> THEN 0
    ELSE Head(parts)[2] - Head(parts)[1] + 1 + SumLen(Tail(parts))

\* d.get(tx_id, [])
PartsOf(d, tx_id) == IF tx_id \in DOMAIN d THEN d[tx_id] ELSE <<>>

tx_total(info) == Max(0, info.tend - info.tstart + 1)

tx_pct(info, start0, end0) ==
    pct(overlap_len(start0, end0, info.tstart - 1, info.tend), tx_total(info))

span_pct(parts, start0, end0) ==
    pct(SumCov(parts, start0, end0), SumLen(parts))

\* the unrounded score of one transcript of the interval
score(info, exons, cds, start0, end0) ==
    score_transcript(tx_pct(info, start0, end0),
                     span_pct(PartsOf(cds, info.tx_id), start0, end0),
                     span_pct(PartsOf(exons, info.tx_id), start0, end0),
                     info.biotype, Truthy(info.gene_name), tx_total(info))

\* the dict appended to candidates for one transcript
Candidate(info, exons, cds, chrom, start0, end0) ==
    [input_chr |-> chrom, input_start |-> start0, input_end |-> end0,
     gene |-> info.gene_id, strand |-> info.strand,
     feature_biotype |-> info.biotype,
     ensembl_id |-> info.tx_id, hugo |-> info.gene_name,
     tx_overlap_pct   |-> round3pct(tx_pct(info, start0, end0)),
     exon_overlap_pct |->
        round3pct(span_pct(PartsOf(exons, info.tx_id), start0, end0)),
     cds_overlap_pct  |->
        round3pct(span_pct(PartsOf(cds, info.tx_id), start0, end0)),
     priority_score   |-> round3(score(info, exons, cds, start0, end0))]

Candidates(ts, exons, cds, chrom, start0, end0) ==
    [i \in 1..Len(ts) |-> Candidate(ts[i], exons, cds, chrom, start0, end0)]

PlaceholderRow_Scored(chrom, start0, end0) ==
    [input_chr |-> chrom, input_start |-> start0, input_end |-> end0,
     gene |-> None, strand |-> None, feature_biotype |-> None,
     ensembl_id |-> None, hugo |-> None,
     tx_overlap_pct |-> 0, exon_overlap_pct |-> 0, cds_overlap_pct |-> 0,
     priority_score |-> 1]

PlaceholderRow(chrom, start0, end0) ==
    [input_chr |-> chrom, input_start |-> start0, input_end |-> end0,
     gene |-> None, strand |-> None, feature_biotype |-> None,
     ensembl_id |-> None, hugo |-> None,
     tx_overlap_pct |-> 0, exon_overlap_pct |-> 0, cds_overlap_pct |-> 0,
     priority_score |-> 0]

\* insertion of c behind every element that does not rank below it
InsertDesc(sorted, c) ==
    LET k == Cardinality({i \in 1..Len(sorted) :
                            sorted[i].priority_score >= c.priority_score})
    IN  SubSeq(sorted, 1, k) \o <<c>> \o SubSeq(sorted, k + 1, Len(sorted))

RECURSIVE SortFrom(_, _)
SortFrom(sorted, rest) ==
    IF rest = <<>> THEN sorted
    ELSE SortFrom(InsertDesc(sorted, Head(rest)), Tail(rest))

sort_Unsorted(cands) == cands

\* candidates.sort(key=priority_score, reverse=True): stable, descending
sort(cands) == SortFrom(<<>>, cands)

\* |a - b| < 1e-6 for two rounded scores a, b held in thousandths
WithinEps(a, b) == Abs(a - b) * 1000 < 1

Picks_BestOneLast(m, cands) ==
    IF m = "all" THEN cands
    ELSE IF m = "best_one" THEN <<cands[Len(cands)]>>
    ELSE SelectSeq(cands,
            LAMBDA c : WithinEps(c.priority_score, cands[1].priority_score))

Picks_AllTruncated(m, cands) ==
    IF m = "all" THEN SubSeq(cands, 1, Len(cands) - 1)
    ELSE IF m = "best_one" THEN <<cands[1]>>
    ELSE SelectSeq(cands,
            LAMBDA c : WithinEps(c.priority_score, cands[1].priority_score))

\* the ambiguity policy applied to the sorted, non-empty candidate list
Picks(m, cands) ==
    IF m = "all" THEN cands
    ELSE IF m = "best_one" THEN <<cands[1]>>
    ELSE SelectSeq(cands,
            LAMBDA c : WithinEps(c.priority_score, cands[1].priority_score))

(***************************************************************************)
(* Summary accumulators                                                    *)
(***************************************************************************)
\* biotype_counter[b] += 1 on a Counter
Incr(counter, b) ==
    [x \in DOMAIN counter \cup {b} |->
        IF x = b THEN (IF b \in DOMAIN counter THEN counter[b] + 1 ELSE 1)
        ELSE counter[x]]

CountBiotype(counter, c) ==
    IF Truthy(c.feature_biotype) THEN Incr(counter, c.feature_biotype)
    ELSE counter

AddGene_GeneIdFirst(genes, c) ==
    IF Truthy(c.gene) THEN genes \cup {c.gene}
    ELSE IF Truthy(c.hugo) THEN genes \cup {c.hugo}
    ELSE genes

AddGene(genes, c) ==
    IF Truthy(c.hugo) THEN genes \cup {c.hugo}
    ELSE IF Truthy(c.gene) THEN genes \cup {c.gene}
    ELSE genes

RECURSIVE CountAll(_, _)
CountAll(counter, picks) ==
    IF picks = <<>> THEN counter
    ELSE CountAll(CountBiotype(counter, Head(picks)), Tail(picks))

RECURSIVE AddAll(_, _)
AddAll(genes, picks) ==
    IF picks = <<>> THEN genes
    ELSE AddAll(AddGene(genes, Head(picks)), Tail(picks))

(***************************************************************************)
(* Inputs                                                                  *)
(***************************************************************************)
SeqsUpTo(S, n) == UNION {[1..k -> S] : k \in 0..n}

\* the subsequence of master at the positions in I
PickSeq(master, I) ==
    [k \in 1..Cardinality(I) |->
        master[CHOOSE i \in I : Cardinality({j \in I : j <= i}) = k]]

\* the files of at most n lines drawn, in file order, from master
FilesOf(master, n) ==
    {PickSeq(master, I) :
        I \in {J \in SUBSET (1..Len(master)) : Cardinality(J) <= n}}

\* BED lines for the parser: "", "#x", "track", "browser", "1 5",
\* "chr1 2 5", "1 x 5", "1 2 5x", "1 5 2", "1 3 3", "2 0 3 n", " ",
\* "chr 1 2", "1 -1 1"
BedLines ==
    {<<>>,
     <<"#", "x">>,
     <<"t", "r", "a", "c", "k">>,
     <<"b", "r", "o", "w", "s", "e", "r">>,
     <<"1", " ", "5">>,
     <<"c", "h", "r", "1", " ", "2", " ", "5">>,
     <<"1", " ", "x", " ", "5">>,
     <<"1", " ", "2", " ", "5", "x">>,
     <<"1", " ", "5", " ", "2">>,
     <<"1", " ", "3", " ", "3">>,
     <<"2", " ", "0", " ", "3", " ", "n">>,
     <<" ">>,
     <<"c", "h", "r", " ", "1", " ", "2">>,
     <<"1", " ", "-", "1", " ", "1">>}

\* BED lines of an annotation run: "chr1 0 1", "1 2 6"
RunBedLines ==
    {<<"c", "h", "r", "1", " ", "0", " ", "1">>,
     <<"1", " ", "2", " ", "6">>}

Modes == {"best_one", "best_all", "all"}

ONE  == <<"1">>
CHR1 == <<"c", "h", "r", "1">>
T1 == <<"T", "1">>
T2 == <<"T", "2">>
T3 == <<"T", "3">>
T5 == <<"T", "5">>
G1 == <<"G", "1">>
G2 == <<"G", "2">>
G3 == <<"G", "3">>
PLUS  == <<"+">>
MINUS == <<"-">>
LINCRNA == <<"l", "i", "n", "c", "R", "N", "A">>

GtfLine(ftype, fstart, fend, strand, attrs) ==
    [ftype |-> ftype, fstart |-> fstart, fend |-> fend,
     strand |-> strand, attrs |-> attrs]

\* lines of contig "chr1", sorted by start as a tabix-indexed file is
ChrMaster ==
    <<GtfLine("transcript", 1, 800, PLUS,
              [transcript_id |-> T1, gene_id |-> G1, gene_name |-> <<"A">>,
               transcript_biotype |-> PROTEIN_CODING]),
      GtfLine("transcript", 1, 801, PLUS,
              [transcript_id |-> T2, gene_id |-> G2, gene_name |-> <<"A">>,
               transcript_biotype |-> PROTEIN_CODING]),
      GtfLine("exon", 1, 3, PLUS, [transcript_id |-> T1, gene_id |-> G1]),
      GtfLine("CDS", 2, 3, PLUS, [transcript_id |-> T1, gene_id |-> G1]),
      GtfLine("exon", 2, 5, PLUS, [transcript_id |-> T1, gene_id |-> G1]),
      GtfLine("transcript", 3, 9, MINUS,
              [transcript_id |-> T3, gene_id |-> G2, gene_name |-> <<>>]),
      GtfLine("transcript", 3, 6, PLUS,
              [transcript_id |-> T1, gene_id |-> G3, gene_name |-> <<"B">>])>>

\* lines of contig "1"
BareMaster ==
    <<GtfLine("exon", 1, 3, PLUS, [transcript_id |-> T1, gene_id |-> G1]),
      GtfLine("transcript", 1, 4, PLUS, [gene_id |-> G1]),
      GtfLine("transcript", 1, 9, MINUS,
              [transcript_id |-> T5, gene_biotype |-> LINCRNA])>>

EmptyDict == [x \in {} |-> <<>>]

(***************************************************************************)
(* The run                                                                 *)
(***************************************************************************)
InitLocals ==
    /\ intervals = <<>>
    /\ pc = "parse"
    /\ idx = 1
    /\ alt = 1
    /\ queried = <<>>
    /\ transcripts = <<>>
    /\ exons_by_tx = EmptyDict
    /\ cds_by_tx = EmptyDict
    /\ found = FALSE
    /\ rows = <<>>
    /\ biotype_counter = EmptyDict
    /\ gene_set = {}
    /\ summary = None

Init ==
    /\ bed \in SeqsUpTo(RunBedLines, MaxBedLines)
    /\ mode \in Modes
    /\ \E present \in SUBSET {ONE, CHR1} :
         \E b \in (IF ONE \in present
                   THEN FilesOf(BareMaster, MaxLines) ELSE {<<>>}) :
           \E c \in (IF CHR1 \in present
                     THEN FilesOf(ChrMaster, MaxLines) ELSE {<<>>}) :
             catalog = [n \in present |-> IF n = ONE THEN b ELSE c]
    /\ InitLocals

InitBed ==
    /\ bed \in SeqsUpTo(BedLines, MaxBedLines)
    /\ mode = "best_all"
    /\ catalog = EmptyDict
    /\ InitLocals

chrom  == intervals[idx][1]
start0 == intervals[idx][2]
end0   == intervals[idx][3]

\* intervals = parse_bed(bed_file.read()); the accumulators start empty
ParseBed ==
    /\ pc = "parse"
    /\ intervals' = parse_bed(bed)
    /\ pc' = "next"
    /\ UNCHANGED <<bed, catalog, mode, idx, alt, queried, transcripts,
                   exons_by_tx, cds_by_tx, found, rows, biotype_counter,
                   gene_set, summary>>

\* the head of the loop over intervals: fresh per-interval collections
BeginInterval ==
    /\ pc = "next"
    /\ idx <= Len(intervals)
    /\ transcripts' = <<>>
    /\ exons_by_tx' = EmptyDict
    /\ cds_by_tx' = EmptyDict
    /\ found' = FALSE
    /\ alt' = 1
    /\ queried' = <<>>
    /\ pc' = "query"
    /\ UNCHANGED <<bed, intervals, catalog, mode, idx, rows,
                   biotype_counter, gene_set, summary>>

chrom_alt == ChromVariants(chrom)[alt]

LastVariant == alt = Len(ChromVariants(chrom))

\* tbx.fetch raises ValueError: continue with the next variant
QueryRaises ==
    /\ pc = "query"
    /\ FetchRaises(chrom_alt)
    /\ queried' = Append(queried, chrom_alt)
    /\ IF LastVariant
       THEN pc' = "emit" /\ alt' = alt
       ELSE pc' = "query" /\ alt' = alt + 1
    /\ UNCHANGED <<bed, intervals, catalog, mode, idx, transcripts,
                   exons_by_tx, cds_by_tx, found, rows, biotype_counter,
                   gene_set, summary>>

\* tbx.fetch yields lines: the loop over them, then `if found: break`
QueryLines ==
    /\ pc = "query"
    /\ ~FetchRaises(chrom_alt)
    /\ LET st == ProcessLines(
                    [transcripts |-> transcripts, exons_by_tx |-> exons_by_tx,
                     cds_by_tx |-> cds_by_tx, found |-> found],
                    fetch(chrom_alt, start0, end0), start0, end0)
       IN  /\ transcripts' = st.transcripts
           /\ exons_by_tx' = st.exons_by_tx
           /\ cds_by_tx' = st.cds_by_tx
           /\ found' = st.found
           /\ IF st.found \/ LastVariant
              THEN pc' = "emit" /\ alt' = alt
              ELSE pc' = "query" /\ alt' = alt + 1
    /\ queried' = Append(queried, chrom_alt)
    /\ UNCHANGED <<bed, intervals, catalog, mode, idx, rows,
                   biotype_counter, gene_set, summary>>

candidates ==
    Candidates(transcripts, exons_by_tx, cds_by_tx, chrom, start0, end0)

\* `if not candidates`: the placeholder row, then continue
EmitPlaceholder ==
    /\ pc = "emit"
    /\ candidates = <<>>
    /\ rows' = Append(rows, PlaceholderRow(chrom, start0, end0))
    /\ idx' = idx + 1
    /\ pc' = "next"
    /\ UNCHANGED <<bed, intervals, catalog, mode, alt, queried, transcripts,
                   exons_by_tx, cds_by_tx, found, biotype_counter, gene_set,
                   summary>>

\* sort, resolve the ambiguity, append the picks and update the summary
EmitPicks ==
    /\ pc = "emit"
    /\ candidates # <<>>
    /\ LET picks == Picks(mode, sort(candidates))
       IN  /\ rows' = rows \o picks
           /\ biotype_counter' = CountAll(biotype_counter, picks)
           /\ gene_set' = AddAll(gene_set, picks)
    /\ idx' = idx + 1
    /\ pc' = "next"
    /\ UNCHANGED <<bed, intervals, catalog, mode, alt, queried, transcripts,
                   exons_by_tx, cds_by_tx, found, summary>>

\* after the loop: the summary of the response
Summarize ==
    /\ pc = "next"
    /\ idx > Len(intervals)
    /\ summary' = [unique_genes |-> Cardinality(gene_set),
                   by_biotype |-> biotype_counter]
    /\ pc' = "done"
    /\ UNCHANGED <<bed, intervals, catalog, mode, idx, alt, queried,
                   transcripts, exons_by_tx, cds_by_tx, found, rows,
                   biotype_counter, gene_set>>

Next ==
    \/ ParseBed
    \/ BeginInterval
    \/ QueryRaises
    \/ QueryLines
    \/ EmitPlaceholder
    \/ EmitPicks
    \/ Summarize

Spec == Init /\ [][Next]_vars

NextBed == ParseBed

SpecBed == InitBed /\ [][NextBed]_vars

(***************************************************************************)
(* Properties                                                              *)
(***************************************************************************)
\* C1: an interval whose transcript map ends empty contributes exactly one
\* row; its gene, strand, feature_biotype, ensembl_id and hugo are null, its
\* three percentages and its priority_score are 0, and the unique-gene set
\* and the biotype counter are left as they were.
C1_PlaceholderRow ==
    [][(pc = "emit" /\ transcripts = <<>>) =>
         /\ Len(rows') = Len(rows) + 1
         /\ SubSeq(rows', 1, Len(rows)) = rows
         /\ LET r == rows'[Len(rows')]
            IN  /\ r.input_chr = chrom
                /\ r.input_start = start0
                /\ r.input_end = end0
                /\ r.gene = None
                /\ r.strand = None
                /\ r.feature_biotype = None
                /\ r.ensembl_id = None
                /\ r.hugo = None
                /\ r.tx_overlap_pct = 0
                /\ r.exon_overlap_pct = 0
                /\ r.cds_overlap_pct = 0
                /\ r.priority_score = 0
         /\ gene_set' = gene_set
         /\ biotype_counter' = biotype_counter]_vars

\* both name variants raised the lookup failure and the placeholder row of
\* the interval has been appended
C1_Witness ==
    /\ pc = "next"
    /\ idx > 1
    /\ transcripts = <<>>
    /\ queried = <<ONE, CHR1>>
    /\ DOMAIN catalog = {}
    /\ rows[Len(rows)].ensembl_id = None

\* C2: under best_all the rows emitted for an interval are exactly the
\* candidates whose unrounded score is less than 1e-6 below the top
\* unrounded score; rounding touches only the priority_score written.
C2_FullPrecisionSelection ==
    [][(pc = "emit" /\ transcripts # <<>> /\ mode = "best_all") =>
         LET raw(t) == score(t, exons_by_tx, cds_by_tx, start0, end0)
             N == Len(transcripts)
             top == CHOOSE i \in 1..N : \A j \in 1..N :
                       FxDiffNano(raw(transcripts[i]), raw(transcripts[j])) >= 0
             close == {i \in 1..N :
                         FxDiffNano(raw(transcripts[top]),
                                    raw(transcripts[i])) < 1000}
             block == SubSeq(rows', Len(rows) + 1, Len(rows'))
         IN  /\ Len(block) = Cardinality(close)
             /\ {block[k].ensembl_id : k \in 1..Len(block)}
                   = {transcripts[i].tx_id : i \in close}]_vars

\* C3: the rows are extended only by the step that closes an interval; that
\* step appends a non-empty block whose rows carry the interval's
\* input_chr/input_start/input_end and are in non-increasing priority_score
\* order, and no step reorders, removes or alters the rows already there.
C3_RowOrder ==
    [][/\ Len(rows') >= Len(rows)
       /\ SubSeq(rows', 1, Len(rows)) = rows
       /\ (pc # "emit" => rows' = rows)
       /\ (pc = "emit" =>
             LET block == SubSeq(rows', Len(rows) + 1, Len(rows'))
             IN  /\ Len(block) >= 1
                 /\ idx' = idx + 1
                 /\ \A k \in 1..Len(block) :
                       /\ block[k].input_chr = intervals[idx][1]
                       /\ block[k].input_start = intervals[idx][2]
                       /\ block[k].input_end = intervals[idx][3]
                 /\ \A k \in 1..(Len(block) - 1) :
                       block[k].priority_score >= block[k + 1].priority_score)
      ]_vars

\* two intervals are done; the block of the second one holds two rows with
\* different scores behind the rows of the first
C3_Witness ==
    /\ pc = "next"
    /\ idx = 3
    /\ Len(rows) >= 3
    /\ rows[Len(rows)].input_start = intervals[2][2]
    /\ rows[Len(rows) - 1].input_start = intervals[2][2]
    /\ rows[1].input_start = intervals[1][2]
    /\ intervals[1][2] # intervals[2][2]
    /\ rows[Len(rows) - 1].priority_score > rows[Len(rows)].priority_score

\* C4: in every state biotype_counter[b] is the number of non-placeholder
\* rows whose feature_biotype is b (rows without a biotype are counted
\* nowhere) and the size of the gene set is the number of distinct keys of
\* the non-placeholder rows, a row's key being its hugo if it has one, else
\* its gene id if it has one; the summary reports these; an empty interval
\* list gives no rows, 0 genes and an empty biotype map.
C4_SummaryAgrees ==
    LET has(x) == x # None /\ x # <<>>
        real == {i \in 1..Len(rows) : rows[i].ensembl_id # None}
        biotypes == {rows[i].feature_biotype :
                        i \in {j \in real : has(rows[j].feature_biotype)}}
        keyed == {i \in real : has(rows[i].hugo) \/ has(rows[i].gene)}
        key(i) == IF has(rows[i].hugo) THEN rows[i].hugo ELSE rows[i].gene
        keys == {key(i) : i \in keyed}
    IN  /\ DOMAIN biotype_counter = biotypes
        /\ \A b \in biotypes :
              biotype_counter[b]
                 = Cardinality({i \in real : rows[i].feature_biotype = b})
        /\ Cardinality(gene_set) = Cardinality(keys)
        /\ pc = "done" =>
              /\ summary.unique_genes = Cardinality(keys)
              /\ DOMAIN summary.by_biotype = biotypes
              /\ \A b \in biotypes :
                    summary.by_biotype[b]
                       = Cardinality({i \in real : rows[i].feature_biotype = b})
        /\ (pc = "done" /\ intervals = <<>>) =>
              /\ rows = <<>>
              /\ summary.unique_genes = 0
              /\ DOMAIN summary.by_biotype = {}

\* a finished run with two rows of one gene symbol, a row keyed by its gene
\* id only and a biotype counted twice
C4_Witness ==
    /\ pc = "done"
    /\ summary.unique_genes = 2
    /\ Len(rows) = 3
    /\ \E i \in 1..Len(rows) : ~Truthy(rows[i].hugo) /\ Truthy(rows[i].gene)
    /\ \E b \in DOMAIN summary.by_biotype : summary.by_biotype[b] = 2

\* C5 as stated: the variants queried for an interval are the bare name,
\* then the chr-prefixed name, up to and including the first one whose query
\* yields a transcript-type line (all of them when none does); a variant that
\* raises the lookup failure counts as yielding nothing.
C5_FirstTranscriptTypeLine ==
    pc = "emit" =>
        LET names == <<chrom, CHR \o chrom>>
            yields(n) ==
                /\ names[n] \in DOMAIN catalog
                /\ \E k \in 1..Len(catalog[names[n]]) :
                      /\ catalog[names[n]][k].ftype = "transcript"
                      /\ catalog[names[n]][k].fstart - 1 < end0
                      /\ start0 < catalog[names[n]][k].fend
            stop == IF \E n \in 1..2 : yields(n)
                    THEN CHOOSE n \in 1..2 :
                            yields(n) /\ \A m \in 1..(n - 1) : ~yields(m)
                    ELSE 2
        IN  /\ queried = SubSeq(names, 1, stop)
            /\ found = (\E n \in 1..2 : yields(n))

\* C5 (amended): the same, where a variant is accepted when its query yields
\* a transcript-type line that carries a transcript id.
C5_FirstTranscriptRecord ==
    pc = "emit" =>
        LET names == <<chrom, CHR \o chrom>>
            yields(n) ==
                /\ names[n] \in DOMAIN catalog
                /\ \E k \in 1..Len(catalog[names[n]]) :
                      LET l == catalog[names[n]][k]
                      IN  /\ l.ftype = "transcript"
                          /\ l.fstart - 1 < end0
                          /\ start0 < l.fend
                          /\ "transcript_id" \in DOMAIN l.attrs
                          /\ l.attrs["transcript_id"] # <<>>
            stop == IF \E n \in 1..2 : yields(n)
                    THEN CHOOSE n \in 1..2 :
                            yields(n) /\ \A m \in 1..(n - 1) : ~yields(m)
                    ELSE 2
        IN  /\ queried = SubSeq(names, 1, stop)
            /\ found = (\E n \in 1..2 : yields(n))

\* the bare name was accepted and the chr-prefixed contig, which holds
\* transcripts too, was never queried
C5_Witness ==
    /\ pc = "emit"
    /\ queried = <<ONE>>
    /\ found
    /\ CHR1 \in DOMAIN catalog
    /\ \E k \in 1..Len(catalog[CHR1]) : catalog[CHR1][k].ftype = "transcript"

\* C6: every candidate's tx, exon and CDS percentage lies in [0, 100] (held
\* in thousandths of a percent), and a percentage over no spans is exactly 0;
\* the same range holds of every row emitted.
C6_PercentRange ==
    /\ pc = "emit" =>
          \A i \in 1..Len(candidates) :
             /\ candidates[i].tx_overlap_pct \in 0..100000
             /\ candidates[i].exon_overlap_pct \in 0..100000
             /\ candidates[i].cds_overlap_pct \in 0..100000
             /\ (candidates[i].ensembl_id \notin DOMAIN cds_by_tx
                    => candidates[i].cds_overlap_pct = 0)
             /\ (candidates[i].ensembl_id \notin DOMAIN exons_by_tx
                    => candidates[i].exon_overlap_pct = 0)
    /\ \A i \in 1..Len(rows) :
          /\ rows[i].tx_overlap_pct \in 0..100000
          /\ rows[i].exon_overlap_pct \in 0..100000
          /\ rows[i].cds_overlap_pct \in 0..100000

\* a candidate with two mutually overlapping exon spans, partly covered, and
\* no CDS span
C6_Witness ==
    /\ pc = "emit"
    /\ \E i \in 1..Len(candidates) :
          /\ candidates[i].ensembl_id \in DOMAIN exons_by_tx
          /\ Len(exons_by_tx[candidates[i].ensembl_id]) = 2
          /\ candidates[i].exon_overlap_pct \in 1..99999
          /\ candidates[i].ensembl_id \notin DOMAIN cds_by_tx
          /\ candidates[i].cds_overlap_pct = 0

\* C7: under policy all the block of an interval holds every transcript of
\* its candidate map exactly once, in non-increasing priority_score order,
\* so its length is the number of distinct transcript ids.
C7_AllKeepsEveryCandidate ==
    [][(pc = "emit" /\ transcripts # <<>> /\ mode = "all") =>
         LET block == SubSeq(rows', Len(rows) + 1, Len(rows'))
             ids == {transcripts[i].tx_id : i \in 1..Len(transcripts)}
         IN  /\ Len(block) = Cardinality(ids)
             /\ \A t \in ids :
                   Cardinality({k \in 1..Len(block) :
                                   block[k].ensembl_id = t}) = 1
             /\ \A k \in 1..(Len(block) - 1) :
                   block[k].priority_score >= block[k + 1].priority_score
      ]_vars

\* policy all has emitted the block of an interval with two candidates, one
\* of which was seen on two transcript lines
C7_Witness ==
    /\ pc = "next"
    /\ idx > 1
    /\ mode = "all"
    /\ Len(transcripts) = 2
    /\ rows[Len(rows)].ensembl_id # rows[Len(rows) - 1].ensembl_id
    /\ \E k \in {Len(rows) - 1, Len(rows)} :
          rows[k].ensembl_id = T1 /\ rows[k].gene = G3

\* C8: for a non-empty candidate set best_one yields exactly one row, a
\* candidate that no other candidate outscores, and that row is among the
\* rows best_all yields for the same candidates; the rows appended under
\* best_one and best_all are these.
C8_BestAllContainsBestOne ==
    [][(pc = "emit" /\ transcripts # <<>>) =>
         LET sorted == sort(candidates)
             one == Picks("best_one", sorted)
             many == Picks("best_all", sorted)
             block == SubSeq(rows', Len(rows) + 1, Len(rows'))
         IN  /\ Len(one) = 1
             /\ one[1] = sorted[1]
             /\ \A i \in 1..Len(candidates) :
                   one[1].priority_score >= candidates[i].priority_score
             /\ \E k \in 1..Len(many) : many[k] = one[1]
             /\ (mode = "best_one" => block = one)
             /\ (mode = "best_all" => block = many)]_vars

\* best_one has emitted one row for an interval with two candidates of
\* different scores
C8_Witness ==
    /\ pc = "next"
    /\ idx > 1
    /\ mode = "best_one"
    /\ Len(transcripts) = 2
    /\ rows[Len(rows)].ensembl_id = transcripts[2].tx_id
    /\ Len(rows) = idx - 1

\* C9: parse_bed returns, in input order, the intervals of the lines it
\* accepts; a line is skipped when it is blank, starts with track, browser
\* or #, has fewer than 3 fields, has a start or end that is no integer, or
\* has end <= start; every interval returned has end > start and the
\* chromosome name of its line without a leading chr.
C9_ParseBed ==
    pc # "parse" =>
        LET fields(l) == split(l)
            skipped(l) ==
                \/ fields(l) = <<>>
                \/ startswith(l, TRACK)
                \/ startswith(l, BROWSER)
                \/ startswith(l, HASH)
                \/ Len(fields(l)) < 3
                \/ ~int(fields(l)[2]).ok
                \/ ~int(fields(l)[3]).ok
                \/ int(fields(l)[3]).val <= int(fields(l)[2]).val
            kept == SelectSeq(bed, LAMBDA l : ~skipped(l))
            name(l) == IF Len(fields(l)[1]) >= 3
                          /\ SubSeq(fields(l)[1], 1, 3) = <<"c", "h", "r">>
                       THEN SubSeq(fields(l)[1], 4, Len(fields(l)[1]))
                       ELSE fields(l)[1]
        IN  /\ Len(intervals) = Len(kept)
            /\ \A i \in 1..Len(kept) :
                  /\ intervals[i][1] = name(kept[i])
                  /\ intervals[i][2] = int(fields(kept[i])[2]).val
                  /\ intervals[i][3] = int(fields(kept[i])[3]).val
                  /\ intervals[i][3] > intervals[i][2]

\* a line with a non-integer start is skipped and the line after it, with a
\* chr-prefixed name, is returned
C9_Witness ==
    /\ pc = "next"
    /\ Len(bed) = 2
    /\ bed[1] = <<"1", " ", "x", " ", "5">>
    /\ intervals = << <<ONE, 2, 5>> >>

\* C10: the exon and CDS percentages of a candidate come from the lines of
\* the accepted name variant only (the last one queried).
C10_AcceptedVariantOnly ==
    (pc = "emit" /\ found) =>
        LET lines == fetch(queried[Len(queried)], start0, end0)
            spans(t, ft) ==
                LET own == SelectSeq(lines, LAMBDA l :
                              /\ l.ftype = ft
                              /\ Get(l.attrs, "transcript_id") = t)
                IN  [k \in 1..Len(own) |-> <<own[k].fstart, own[k].fend>>]
        IN  \A i \in 1..Len(candidates) :
               /\ candidates[i].exon_overlap_pct
                     = round3pct(span_pct(spans(candidates[i].ensembl_id,
                                                "exon"), start0, end0))
               /\ candidates[i].cds_overlap_pct
                     = round3pct(span_pct(spans(candidates[i].ensembl_id,
                                                "CDS"), start0, end0))

====
